---- MODULE Spec2Model ----
(***************************************************************************)
(* Model of the three bulk loaders of the repository:                      *)
(*   load_csv_to_mongo.py, load_geojson_to_mongo.py, load_wkt_csv_to_mongo *)
(* Each loader is the pipeline  reader generator -> batcher generator ->   *)
(* main loop issuing bulk_write.  A run is one behaviour of Spec.          *)
(* The pure helpers coerce_value and normalize_feature are operators,      *)
(* exercised by SpecCoerce and SpecFeature.                                *)
(***************************************************************************)
EXTENDS Integers, Sequences, FiniteSets, TLC

\* ---------------------------------------------------------------- bounds
MaxBatch == 2
MaxRows == 4
MaxElems == 3
MaxLines == 2
MaxPrior == 1
MaxLen == 4

\* ------------------------------------------------------------- utilities
BSeq(S, n) == UNION {[1..k -> S] : k \in 0..n}

Range(s) == {s[i] : i \in 1..Len(s)}

RECURSIVE Flatten(_)
Flatten(ss) == IF ss = <<>> THEN <<>> ELSE Head(ss) \o Flatten(Tail(ss))

CeilDiv(a, b) == (a + b - 1) \div b

\* ------------------------------------------------------------ run state
VARIABLES
  tool,      \* which loader runs: "csv", "geojson", "wkt"
  args,      \* parsed command line
  input,     \* content of the source file
  coll,      \* documents in the target collection, in insertion order
  pc,        \* position of the run
  handle,    \* source file handle: "unopened", "open", "closed"
  opens,     \* number of times the source file was opened
  gen,       \* reader generator: "fresh", "running", "finished", "raised"
  pos,       \* rows / lines consumed by the reader
  iterating, \* GeoJSON reader is inside a `for feat in ...` loop
  ei,        \* elements consumed of the current collection / array
  item,      \* document last yielded by the reader
  buf,       \* buffer of the batcher
  docs,      \* batch bound to the loop variable of main
  total,     \* running total of inserted documents
  log,       \* logging calls made so far
  ops,       \* requests sent to the database so far
  err,       \* exception propagating / propagated out of the pipeline
  emitted,   \* history: documents yielded by the reader so far
  cv,        \* SpecCoerce: the cell value under test
  cres,      \* SpecCoerce: results of the two coerce_value functions
  feat,      \* SpecFeature: the Feature under test
  nargs,     \* SpecFeature: command line of the GeoJSON tool
  ndoc       \* SpecFeature: document built by normalize_feature

runVars == <<tool, args, input, coll, pc, handle, opens, gen, pos, iterating,
             ei, item, buf, docs, total, log, ops, err, emitted>>
coerceVars == <<cv, cres>>
featVars == <<feat, nargs, ndoc>>
vars == <<runVars, coerceVars, featVars>>

\* ------------------------------------------------------------ the inputs
\* A JSON value as the GeoJSON reader sees it.  elems[j] tells whether the
\* j-th member of a FeatureCollection / array is itself a Feature.
Blank == [shape |-> "blank", elems |-> <<>>]

Objs ==
  {[shape |-> "Feature", elems |-> <<>>], [shape |-> "other", elems |-> <<>>]}
  \cup {[shape |-> s, elems |-> e] :
          s \in {"FeatureCollection", "list"}, e \in BSeq(BOOLEAN, MaxElems)}

NumRecords(o) == IF o.shape = "Feature" THEN 1 ELSE Len(o.elems)

RECURSIVE TotalRecords(_)
TotalRecords(ls) ==
  IF ls = <<>> THEN 0 ELSE NumRecords(Head(ls)) + TotalRecords(Tail(ls))

\* header: "none" = empty file (DictReader.fieldnames is None),
\*         "blank" = first line empty (fieldnames = []),
\*         "nowkt" = header without the WKT column, "ok" = usable header.
\* rows: "ok" = a row no longer than the header, "long" = a row with more
\*       cells than the header (DictReader files the rest under key None);
\*       for the WKT loader "empty" / "bad" = empty / unparseable WKT cell.
CsvInputs ==
  {[header |-> "none", rows |-> <<>>]}
  \cup {[header |-> "blank", rows |-> r] : r \in BSeq({"ok"}, MaxRows)}
  \cup {[header |-> "ok", rows |-> r] : r \in BSeq({"ok", "long"}, MaxRows)}

WktInputs ==
  {[header |-> "none", rows |-> <<>>]}
  \cup {[header |-> h, rows |-> r] :
          h \in {"blank", "nowkt"}, r \in BSeq({"ok"}, MaxRows)}
  \cup {[header |-> "ok", rows |-> r] :
          r \in BSeq({"ok", "empty", "bad"}, MaxRows)}

PlainInputs == {[lines |-> <<o>>] : o \in Objs}

NdjsonInputs ==
  {[lines |-> ls] : ls \in {l \in BSeq(Objs \cup {Blank}, MaxLines) :
                              TotalRecords(l) <= MaxElems}}

Prior == <<0, 0>>

\* ------------------------------------------------------------------ Init
CoerceIdle == cv = <<>> /\ cres = <<>>
FeatIdle == feat = <<>> /\ nargs = <<>> /\ ndoc = <<>>

InitRun ==
  /\ tool \in {"csv", "geojson", "wkt"}
  /\ \E b \in 1..MaxBatch, d \in BOOLEAN, c \in BOOLEAN, n \in BOOLEAN :
       /\ tool = "csv" => ~c /\ ~n
       /\ tool = "wkt" => ~n
       /\ args = [batch_size |-> b, drop |-> d, create_index |-> c, ndjson |-> n]
  /\ input \in CASE tool = "csv" -> CsvInputs
                 [] tool = "wkt" -> WktInputs
                 [] OTHER -> IF args.ndjson THEN NdjsonInputs ELSE PlainInputs
  /\ coll \in BSeq({Prior}, MaxPrior)
  /\ pc = "start"
  /\ handle = "unopened"
  /\ opens = 0
  /\ gen = "fresh"
  /\ pos = 0
  /\ iterating = FALSE
  /\ ei = 0
  /\ item = <<>>
  /\ buf = <<>>
  /\ docs = <<>>
  /\ total = 0
  /\ log = <<>>
  /\ ops = <<>>
  /\ err = "none"
  /\ emitted = <<>>

Init == InitRun /\ CoerceIdle /\ FeatIdle

\* ------------------------------------------------------------- main, head
DbOp(o, d) == [op |-> o, docs |-> d]

DropRequested == args.drop

IndexRequested == tool # "csv" /\ args.create_index

\* `if args.drop: coll.drop()`
MainDrop ==
  /\ pc = "start"
  /\ IF DropRequested
       THEN /\ ops' = Append(ops, DbOp("drop", <<>>))
            /\ coll' = <<>>
            /\ log' = Append(log, "dropping")
       ELSE UNCHANGED <<ops, coll, log>>
  /\ pc' = "index"
  /\ UNCHANGED <<tool, args, input, handle, opens, gen, pos, iterating, ei,
                 item, buf, docs, total, err, emitted>>
  /\ UNCHANGED <<coerceVars, featVars>>

\* `if args.create_index: coll.create_index(...)` (GeoJSON and WKT loaders),
\* then the "Loading ..." log line of every loader.
MainCreateIndex ==
  /\ pc = "index"
  /\ IF IndexRequested
       THEN /\ ops' = Append(ops, DbOp("create_index", <<>>))
            /\ log' = log \o <<"ensuring index", "loading">>
       ELSE /\ ops' = ops
            /\ log' = Append(log, "loading")
  /\ pc' = IF tool = "geojson" THEN "open" ELSE "pull"
  /\ UNCHANGED <<tool, args, input, coll, handle, opens, gen, pos, iterating,
                 ei, item, buf, docs, total, err, emitted>>
  /\ UNCHANGED <<coerceVars, featVars>>

\* `with open_maybe_gzip(args.input, ...) as f:` in the GeoJSON main
MainOpen ==
  /\ pc = "open"
  /\ tool = "geojson"
  /\ handle' = "open"
  /\ opens' = opens + 1
  /\ pc' = "pull"
  /\ UNCHANGED <<tool, args, input, coll, gen, pos, iterating, ei, item, buf,
                 docs, total, log, ops, err, emitted>>
  /\ UNCHANGED <<coerceVars, featVars>>

\* ------------------------------------------------- the reader generators
\* A reader runs only while the batcher waits in `for item in iterable`
\* (pc = "pull").  It ends its step by yielding a document, by finishing
\* (StopIteration), by raising, or by going on to the next row / element.
Doc(i, j) == <<i, j>>

ReaderYield(d) ==
  /\ item' = d
  /\ emitted' = Append(emitted, d)
  /\ pc' = "append"
  /\ err' = err

\* faulty variant: the error ends the input and the batcher flushes
ReaderRaise_Flushes(e) ==
  /\ err' = e
  /\ pc' = "flush"
  /\ UNCHANGED <<item, emitted>>

ReaderRaise(e) ==
  /\ err' = e
  /\ pc' = "raise"
  /\ UNCHANGED <<item, emitted>>

ReaderStop ==
  /\ pc' = "flush"
  /\ UNCHANGED <<item, emitted, err>>

ReaderContinue ==
  /\ pc' = "pull"
  /\ UNCHANGED <<item, emitted, err>>

\* faulty variant: the header test is missing
CsvHeaderMissing_Unchecked(h) == FALSE

\* csv loader: `reader.fieldnames is None`
CsvHeaderMissing(h) == h = "none"

\* wkt loader: `not reader.fieldnames`
WktHeaderMissing(h) == h \in {"none", "blank"}

\* read_csv_rows, up to the `for row in reader` loop
ReadCsvHeader ==
  /\ pc = "pull"
  /\ tool = "csv"
  /\ gen = "fresh"
  /\ opens' = opens + 1
  /\ IF CsvHeaderMissing(input.header)
       THEN /\ ReaderRaise("MissingHeader")
            /\ gen' = "raised"
            /\ handle' = "closed"
       ELSE /\ ReaderContinue
            /\ gen' = "running"
            /\ handle' = "open"
  /\ UNCHANGED <<tool, args, input, coll, pos, iterating, ei, buf, docs,
                 total, log, ops>>
  /\ UNCHANGED <<coerceVars, featVars>>

\* read_csv_rows, one turn of `for row in reader`.  Under an empty header
\* line every row is {None: [...]}, and a row longer than the header has
\* the key None too: field_map[None] raises KeyError.
ReadCsvRow ==
  /\ pc = "pull"
  /\ tool = "csv"
  /\ gen = "running"
  /\ IF pos = Len(input.rows)
       THEN /\ ReaderStop
            /\ gen' = "finished"
            /\ handle' = "closed"
            /\ pos' = pos
       ELSE /\ pos' = pos + 1
            /\ IF input.header = "blank" \/ input.rows[pos + 1] = "long"
                 THEN /\ ReaderRaise("KeyError")
                      /\ gen' = "raised"
                      /\ handle' = "closed"
                 ELSE /\ ReaderYield(Doc(pos + 1, 0))
                      /\ UNCHANGED <<gen, handle>>
  /\ UNCHANGED <<tool, args, input, coll, opens, iterating, ei, buf, docs,
                 total, log, ops>>
  /\ UNCHANGED <<coerceVars, featVars>>

read_csv_rows == ReadCsvHeader \/ ReadCsvRow

\* yield_docs_from_csv, up to the `for row in reader` loop
ReadWktHeader ==
  /\ pc = "pull"
  /\ tool = "wkt"
  /\ gen = "fresh"
  /\ opens' = opens + 1
  /\ IF WktHeaderMissing(input.header)
       THEN /\ ReaderRaise("MissingHeader")
            /\ gen' = "raised"
            /\ handle' = "closed"
       ELSE IF input.header = "nowkt"
       THEN /\ ReaderRaise("MissingField")
            /\ gen' = "raised"
            /\ handle' = "closed"
       ELSE /\ ReaderContinue
            /\ gen' = "running"
            /\ handle' = "open"
  /\ UNCHANGED <<tool, args, input, coll, pos, iterating, ei, buf, docs,
                 total, log, ops>>
  /\ UNCHANGED <<coerceVars, featVars>>

\* yield_docs_from_csv, one turn of `for row in reader`
ReadWktRow ==
  /\ pc = "pull"
  /\ tool = "wkt"
  /\ gen = "running"
  /\ IF pos = Len(input.rows)
       THEN /\ ReaderStop
            /\ gen' = "finished"
            /\ handle' = "closed"
            /\ pos' = pos
       ELSE /\ pos' = pos + 1
            /\ CASE input.rows[pos + 1] = "empty" ->
                      /\ ReaderContinue
                      /\ UNCHANGED <<gen, handle>>
                 [] input.rows[pos + 1] = "bad" ->
                      /\ ReaderRaise("InvalidWKT")
                      /\ gen' = "raised"
                      /\ handle' = "closed"
                 [] OTHER ->
                      /\ ReaderYield(Doc(pos + 1, 0))
                      /\ UNCHANGED <<gen, handle>>
  /\ UNCHANGED <<tool, args, input, coll, opens, iterating, ei, buf, docs,
                 total, log, ops>>
  /\ UNCHANGED <<coerceVars, featVars>>

yield_docs_from_csv == ReadWktHeader \/ ReadWktRow

\* is_feature / is_feature_collection on the modelled JSON values
is_feature(o) == o.shape = "Feature"

is_feature_collection(o) == o.shape = "FeatureCollection"

\* yield_docs_from_geojson_stream: take the next JSON value (json.load of
\* the whole file, or json.loads of the next NDJSON line) and dispatch on it
GeoReadObj ==
  /\ pc = "pull"
  /\ tool = "geojson"
  /\ gen \in {"fresh", "running"}
  /\ ~iterating
  /\ IF (args.ndjson /\ pos = Len(input.lines)) \/ (~args.ndjson /\ gen = "running")
       THEN /\ ReaderStop
            /\ gen' = "finished"
            /\ UNCHANGED <<pos, iterating, ei>>
       ELSE /\ pos' = pos + 1
            /\ ei' = 0
            /\ LET o == input.lines[pos + 1] IN
               CASE o.shape = "blank" ->
                      /\ ReaderContinue
                      /\ gen' = "running"
                      /\ iterating' = FALSE
                 [] is_feature(o) ->
                      /\ ReaderYield(Doc(pos + 1, 0))
                      /\ gen' = "running"
                      /\ iterating' = FALSE
                 [] is_feature_collection(o) \/ o.shape = "list" ->
                      /\ ReaderContinue
                      /\ gen' = "running"
                      /\ iterating' = TRUE
                 [] OTHER ->
                      /\ ReaderRaise("MalformedInput")
                      /\ gen' = "raised"
                      /\ iterating' = FALSE
  /\ UNCHANGED <<tool, args, input, coll, handle, opens, buf, docs, total,
                 log, ops>>
  /\ UNCHANGED <<coerceVars, featVars>>

\* yield_docs_from_geojson_stream: one turn of `for feat in obj["features"]`
\* or of `for feat in obj`
GeoNextFeature ==
  /\ pc = "pull"
  /\ tool = "geojson"
  /\ gen = "running"
  /\ iterating
  /\ LET o == input.lines[pos] IN
     IF ei = Len(o.elems)
       THEN /\ ReaderContinue
            /\ iterating' = FALSE
            /\ UNCHANGED <<ei, gen>>
       ELSE /\ ei' = ei + 1
            /\ IF o.elems[ei + 1]
                 THEN /\ ReaderYield(Doc(pos, ei + 1))
                      /\ UNCHANGED <<iterating, gen>>
                 ELSE IF o.shape = "list"
                 THEN /\ ReaderContinue
                      /\ UNCHANGED <<iterating, gen>>
                 ELSE /\ ReaderRaise("NotAFeature")
                      /\ gen' = "raised"
                      /\ iterating' = FALSE
  /\ UNCHANGED <<tool, args, input, coll, handle, opens, pos, buf, docs,
                 total, log, ops>>
  /\ UNCHANGED <<coerceVars, featVars>>

yield_docs_from_geojson_stream == GeoReadObj \/ GeoNextFeature

\* ----------------------------------------------------------- the batcher
\* faulty variant: the comparison off by one
BatchFull_OffByOne(b, n) == Len(b) > n

\* `if len(buf) >= n`
BatchFull(b, n) == Len(b) >= n

\* faulty variant: the rest of the buffer is forgotten
BatchRest_Forgotten(b) == FALSE

\* `if buf:` after the loop
BatchRest(b) == b # <<>>

\* One turn of `for item in iterable:` in the batcher: append, and yield the
\* buffer when it is full.  The yielded list becomes main's loop variable;
\* the batcher rebinds buf to a new empty list when it is resumed.
BatchAppend ==
  /\ pc = "append"
  /\ LET nb == Append(buf, item) IN
     IF BatchFull(nb, args.batch_size)
       THEN /\ docs' = nb
            /\ buf' = <<>>
            /\ pc' = "write"
       ELSE /\ buf' = nb
            /\ docs' = docs
            /\ pc' = "pull"
  /\ UNCHANGED <<tool, args, input, coll, handle, opens, gen, pos, iterating,
                 ei, item, total, log, ops, err, emitted>>
  /\ UNCHANGED <<coerceVars, featVars>>

\* The iterable is exhausted: `if buf: yield buf`, else the batcher ends.
BatchFlush ==
  /\ pc = "flush"
  /\ IF BatchRest(buf)
       THEN /\ docs' = buf
            /\ buf' = <<>>
            /\ pc' = "write"
       ELSE /\ pc' = "end"
            /\ UNCHANGED <<docs, buf>>
  /\ UNCHANGED <<tool, args, input, coll, handle, opens, gen, pos, iterating,
                 ei, item, total, log, ops, err, emitted>>
  /\ UNCHANGED <<coerceVars, featVars>>

\* batch of the CSV loader
batch == tool = "csv" /\ (BatchAppend \/ BatchFlush)

\* batch_iter of the GeoJSON and WKT loaders
batch_iter == tool \in {"geojson", "wkt"} /\ (BatchAppend \/ BatchFlush)

\* ------------------------------------------------------------- main, loop
\* `coll.bulk_write([InsertOne(d) for d in docs], ordered=False)` and the
\* lines after it.  The database either takes the whole batch or raises
\* BulkWriteError, having inserted some of the documents (unordered).
BulkWrite ==
  /\ pc = "write"
  /\ ops' = Append(ops, DbOp("bulk_write", docs))
  /\ \/ /\ coll' = coll \o docs
        /\ total' = total + Len(docs)
        /\ log' = Append(log, "batch inserted")
        /\ pc' = IF gen = "finished" THEN "end" ELSE "pull"
        /\ err' = err
     \/ /\ \E k \in 0..(Len(docs) - 1) : coll' = coll \o SubSeq(docs, 1, k)
        /\ err' = "BulkWriteError"
        /\ pc' = "raise"
        /\ UNCHANGED <<total, log>>
  /\ UNCHANGED <<tool, args, input, handle, opens, gen, pos, iterating, ei,
                 item, buf, docs, emitted>>
  /\ UNCHANGED <<coerceVars, featVars>>

\* the loaders whose main wraps the loop in try / except
HasExcept(t) == t \in {"geojson", "wkt"}

\* faulty variant: the handler swallows the exception
Reraises_Swallowed(t) == FALSE

\* both except clauses end in `raise`
Reraises(t) == TRUE

\* An exception reaches main.  GeoJSON and WKT loaders: `except
\* BulkWriteError` logs bwe.details, `except Exception` logs the failure,
\* both re-raise.  The CSV loader has no handler.  Leaving the `with` of the
\* GeoJSON main closes the file.
MainExcept ==
  /\ pc = "raise"
  /\ log' = IF HasExcept(tool)
              THEN Append(log, IF err = "BulkWriteError"
                                 THEN "bulk write error: details"
                                 ELSE "failed to load")
              ELSE log
  /\ handle' = IF tool = "geojson" THEN "closed" ELSE handle
  /\ pc' = IF Reraises(tool) THEN "failed" ELSE "end"
  /\ UNCHANGED <<tool, args, input, coll, opens, gen, pos, iterating, ei,
                 item, buf, docs, total, ops, err, emitted>>
  /\ UNCHANGED <<coerceVars, featVars>>

\* The loop ended: the `with` of the GeoJSON main closes the file, and the
\* loader logs "Done. Inserted ...".
MainDone ==
  /\ pc = "end"
  /\ handle' = IF tool = "geojson" THEN "closed" ELSE handle
  /\ log' = Append(log, "done")
  /\ pc' = "done"
  /\ UNCHANGED <<tool, args, input, coll, opens, gen, pos, iterating, ei,
                 item, buf, docs, total, ops, err, emitted>>
  /\ UNCHANGED <<coerceVars, featVars>>

\* The process ends.  A reader generator still suspended inside its
\* `with open_maybe_gzip(...)` was never closed by the loader: whether its
\* finalizer runs (and closes the file) before the interpreter is gone is
\* not decided by the program.
ProcessExit ==
  /\ pc \in {"done", "failed"}
  /\ pc' = "exit"
  /\ handle' \in IF handle = "open" /\ gen = "running"
                   THEN {"open", "closed"}
                   ELSE {handle}
  /\ UNCHANGED <<tool, args, input, coll, opens, gen, pos, iterating, ei,
                 item, buf, docs, total, log, ops, err, emitted>>
  /\ UNCHANGED <<coerceVars, featVars>>

Next ==
  \/ MainDrop
  \/ MainCreateIndex
  \/ MainOpen
  \/ read_csv_rows
  \/ yield_docs_from_csv
  \/ yield_docs_from_geojson_stream
  \/ batch
  \/ batch_iter
  \/ BulkWrite
  \/ MainExcept
  \/ MainDone
  \/ ProcessExit

Spec == Init /\ [][Next]_vars

\* ======================================================= claims on a run
B == args.batch_size

\* the batches handed to main so far, in order
RECURSIVE WrittenBatches(_)
WrittenBatches(os) ==
  IF os = <<>> THEN <<>>
  ELSE IF Head(os).op = "bulk_write"
         THEN <<Head(os).docs>> \o WrittenBatches(Tail(os))
         ELSE WrittenBatches(Tail(os))

Yielded == WrittenBatches(ops) \o (IF pc = "write" THEN <<docs>> ELSE <<>>)

\* the batcher has consumed its whole input and ended
BatcherEnded == pc \in {"end", "done"} \/ (pc = "exit" /\ err = "none")

\* C1: each batcher (batch, batch_iter) cuts the sequence of L documents it
\* pulls into ceil(L/B) batches; every batch has size B except possibly the
\* last, which is non-empty and no larger than B; no batch is emitted for
\* an empty sequence; the batches concatenated in order are the sequence.
C1_Batching ==
  /\ Flatten(Yielded) \o buf \o (IF pc = "append" THEN <<item>> ELSE <<>>)
       = emitted
  /\ \A i \in 1..Len(Yielded) :
       /\ Len(Yielded[i]) >= 1
       /\ Len(Yielded[i]) <= B
       /\ Len(Yielded[i]) < B => (i = Len(Yielded) /\ gen = "finished")
  /\ Len(buf) < B
  /\ BatcherEnded =>
       /\ Len(Yielded) = CeilDiv(Len(emitted), B)
       /\ Flatten(Yielded) = emitted
       /\ (emitted = <<>> => Yielded = <<>>)

C1_Witness ==
  /\ pc = "done"
  /\ B = 2
  /\ Len(emitted) = 3
  /\ Yielded = <<SubSeq(emitted, 1, 2), SubSeq(emitted, 3, 3)>>

\* the input is one FeatureCollection whose members are all Features
IsFeatureCollectionInput ==
  /\ tool = "geojson"
  /\ Len(input.lines) = 1
  /\ input.lines[1].shape = "FeatureCollection"
  /\ \A j \in 1..Len(input.lines[1].elems) : input.lines[1].elems[j]

\* C2: the GeoJSON loader run with --drop on a FeatureCollection of N
\* Features, the database rejecting nothing, ends successfully with exactly
\* the N documents in the collection and a reported total of N, whatever
\* the collection held before and whatever the batch size.
C2_DropRoundTrip ==
  (/\ IsFeatureCollectionInput
   /\ args.drop
   /\ pc \in {"done", "failed", "exit"}
   /\ err # "BulkWriteError")
  => /\ err = "none"
     /\ pc # "failed"
     /\ coll = [j \in 1..Len(input.lines[1].elems) |-> Doc(1, j)]
     /\ total = Len(input.lines[1].elems)

C2_Witness ==
  /\ IsFeatureCollectionInput
  /\ args.drop
  /\ pc = "done"
  /\ B = 2
  /\ Len(input.lines[1].elems) = 3
  /\ Len(coll) = 3
  /\ total = 3

\* the file has no header row for the loader at hand: it is empty, or (WKT
\* loader) its first line is empty
HeaderAbsent ==
  /\ tool \in {"csv", "wkt"}
  /\ \/ input.header = "none"
     \/ tool = "wkt" /\ input.header = "blank"

\* what main sends to the database before it first pulls from the pipeline
Prelude ==
  (IF args.drop THEN <<DbOp("drop", <<>>)>> ELSE <<>>)
  \o (IF tool # "csv" /\ args.create_index
        THEN <<DbOp("create_index", <<>>)>> ELSE <<>>)

\* C3 as stated: when the CSV has no header row the run fails with the
\* missing-header error and no database-mutating operation (drop, index
\* creation, bulk insert) has been issued before the error is raised.
C3_NoWriteBeforeHeaderError ==
  (tool \in {"csv", "wkt"} /\ input.header \in {"none", "blank"}
   /\ pc \in {"raise", "failed", "exit"})
  => (err = "MissingHeader" /\ ops = <<>>)

\* C3 amended: on a file without header row (empty file; for the WKT
\* loader also a file whose first line is empty) the run fails with the
\* missing-header error before any bulk insert; the database has by then
\* received exactly the collection drop, if --drop was given, and the index
\* creation, if --create-index was given to the WKT loader.
C3_NoInsertBeforeHeaderError ==
  HeaderAbsent =>
    /\ pc \notin {"append", "flush", "write", "end", "done"}
    /\ \A i \in 1..Len(ops) : ops[i].op # "bulk_write"
    /\ pc \in {"raise", "failed", "exit"} =>
         (err = "MissingHeader" /\ ops = Prelude /\ total = 0)

C3_Witness ==
  /\ HeaderAbsent
  /\ tool = "wkt"
  /\ args.drop
  /\ args.create_index
  /\ pc = "failed"
  /\ err = "MissingHeader"
  /\ Len(ops) = 2

\* C4 as stated: in each loader a bulk-write error is logged with the
\* driver's detail before it is re-raised.
C4_BulkWriteErrorLogged ==
  (err = "BulkWriteError" /\ pc \in {"failed", "exit"})
  => log[Len(log)] = "bulk write error: details"

\* C4 amended: in each loader a bulk-write error on batch i ends the run as
\* failed: no database request follows the failing bulk insert and "done"
\* is never logged.  The GeoJSON and WKT loaders log the error with the
\* driver's detail before re-raising it; the CSV loader has no handler and
\* lets it propagate without logging it.
C4_BulkWriteErrorAborts ==
  [][/\ err = "BulkWriteError" => (ops' = ops /\ err' = err)
     /\ err' = "BulkWriteError" =>
          /\ pc' \in {"raise", "failed", "exit"}
          /\ ops'[Len(ops')] = DbOp("bulk_write", docs')
          /\ \A i \in 1..Len(log') : log'[i] # "done"
          /\ pc' \in {"failed", "exit"} =>
               IF tool' = "csv"
                 THEN log'[Len(log')] \in {"loading", "batch inserted"}
                 ELSE log'[Len(log')] = "bulk write error: details"]_vars

C4_Witness ==
  /\ err = "BulkWriteError"
  /\ pc = "failed"
  /\ tool = "wkt"
  /\ B = 1
  /\ Len(input.rows) = 3
  /\ Len(WrittenBatches(ops)) = 2
  /\ log[Len(log)] = "bulk write error: details"

\* the input records some variable of the run still refers to: the value
\* parsed by the reader (`row`, or `obj` with all its members), `item` and
\* `buf` of the batcher, and the batch bound to main's loop variable
ReaderHeld ==
  IF gen # "running" \/ pos = 0 THEN {}
  ELSE IF tool \in {"csv", "wkt"} THEN {Doc(pos, 0)}
  ELSE IF input.lines[pos].shape = "Feature" THEN {Doc(pos, 0)}
  ELSE {Doc(pos, j) : j \in 1..Len(input.lines[pos].elems)}

Held ==
  ReaderHeld \cup Range(buf) \cup Range(docs)
  \cup (IF item = <<>> THEN {} ELSE {item})

\* every NDJSON line is one Feature (or empty)
FeaturePerLine ==
  /\ tool = "geojson"
  /\ args.ndjson
  /\ \A i \in 1..Len(input.lines) : input.lines[i].shape \in {"Feature", "blank"}

\* C5 as stated: in every loader and input mode at most batch size + 1
\* input records are held in memory at any time.
C5_HeldAtMostBatchPlusOne == Cardinality(Held) <= B + 1

\* C5 amended: in the CSV loader, the WKT loader and the NDJSON mode with
\* one Feature per line, the reader holds one record at a time and at most
\* 2 * batch size records are held in all (the batch last handed to main
\* and the batch being filled), whatever the size of the input; in plain
\* GeoJSON mode the reader parses the whole input before it yields the
\* first document and holds all of it while it runs.
C5_HeldBounded ==
  /\ (tool \in {"csv", "wkt"} \/ FeaturePerLine) =>
       /\ Cardinality(ReaderHeld) <= 1
       /\ Cardinality(Held) <= 2 * B
  /\ (tool = "geojson" /\ ~args.ndjson /\ gen = "running") =>
       Cardinality(ReaderHeld) = TotalRecords(input.lines)

C5_Witness ==
  /\ tool = "csv"
  /\ B = 2
  /\ Len(input.rows) = 4
  /\ pc = "append"
  /\ Cardinality(ReaderHeld) = 1
  /\ Cardinality(Held) = 4

C9_OneDocumentPerElement ==
  (tool = "geojson" /\ pc \in {"end", "done"})
  => Len(emitted) = TotalRecords(input.lines)

\* ======================================================== value coercion
\* A cell value is a string, modelled as a sequence of characters over a
\* small alphabet: blank, two digits, comma, point, slash and letters.
Chars == {" ", "0", "7", ",", ".", "/", "N", "A", "a"}

Digits == {"0", "7"}

Strings == BSeq(Chars, MaxLen)

\* str.strip()
RECURSIVE LStrip(_)
LStrip(s) ==
  IF s # <<>> /\ Head(s) = " " THEN LStrip(Tail(s)) ELSE s

RECURSIVE RStrip(_)
RStrip(s) ==
  IF s # <<>> /\ s[Len(s)] = " " THEN RStrip(SubSeq(s, 1, Len(s) - 1)) ELSE s

Strip(s) == RStrip(LStrip(s))

\* str.upper()
Upper(s) == [i \in 1..Len(s) |-> IF s[i] = "a" THEN "A" ELSE s[i]]

\* str.isdigit()
IsDigit(s) == s # <<>> /\ \A i \in 1..Len(s) : s[i] \in Digits

\* str.replace(",", "")
RECURSIVE RemoveCommas(_)
RemoveCommas(s) ==
  IF s = <<>> THEN <<>>
  ELSE IF Head(s) = "," THEN RemoveCommas(Tail(s))
  ELSE <<Head(s)>> \o RemoveCommas(Tail(s))

DigitValue(c) == IF c = "7" THEN 7 ELSE 0

\* int() of a string of digits
RECURSIVE IntOf(_)
IntOf(s) ==
  IF s = <<>> THEN 0
  ELSE 10 * IntOf(SubSeq(s, 1, Len(s) - 1)) + DigitValue(s[Len(s)])

RECURSIVE DropTrailingZeros(_)
DropTrailingZeros(s) ==
  IF s # <<>> /\ s[Len(s)] = "0"
    THEN DropTrailingZeros(SubSeq(s, 1, Len(s) - 1)) ELSE s

\* the results of coerce_value: None, an int, a float m / 10^k, or a string
Null == [kind |-> "null", val |-> <<>>]
IntVal(n) == [kind |-> "int", val |-> <<n>>]
FloatVal(m, k) == [kind |-> "float", val |-> <<m, k>>]
NaN == [kind |-> "float", val |-> <<0, -1>>]
StrVal(s) == [kind |-> "str", val |-> s]
ValueError == [kind |-> "ValueError", val |-> <<>>]

\* float() on the alphabet: surrounding blanks are ignored, "nan" in any
\* case is not-a-number, otherwise digits with at most one point and at
\* least one digit; anything else raises ValueError.
float(s) ==
  LET t == Strip(s)
      points == {i \in 1..Len(t) : t[i] = "."}
  IN  IF Upper(t) = <<"N", "A", "N">> THEN NaN
      ELSE IF Cardinality(points) > 1 THEN ValueError
      ELSE LET p == IF points = {} THEN Len(t) + 1 ELSE CHOOSE i \in points : TRUE
               ip == SubSeq(t, 1, p - 1)
               fp == SubSeq(t, p + 1, Len(t))
               f == DropTrailingZeros(fp)
           IN  IF /\ Len(ip) + Len(fp) >= 1
                  /\ \A i \in 1..Len(ip) : ip[i] \in Digits
                  /\ \A i \in 1..Len(fp) : fp[i] \in Digits
                 THEN FloatVal(IntOf(ip \o f), Len(f))
                 ELSE ValueError

\* coerce_value of the CSV loader
coerce_value_csv(v0) ==
  IF Strip(v0) = <<>> THEN Null
  ELSE LET v == Strip(v0) IN
       IF IsDigit(v) /\ ~(Len(v) > 1 /\ v[1] = "0") THEN IntVal(IntOf(v))
       ELSE IF float(RemoveCommas(v)) = ValueError THEN StrVal(v)
       ELSE float(RemoveCommas(v))

\* the strings the WKT loader reads as null
NullTokens ==
  {<<"N", "U", "L", "L">>, <<"N", "/", "A">>, <<"N", "A">>,
   <<"N", "O", "N", "E">>}

\* faulty variant: the thousands separators are not removed
coerce_value_wkt_KeepCommas(v0) ==
  LET v == Strip(v0) IN
  IF v = <<>> \/ Upper(v) \in NullTokens THEN Null
  ELSE IF IsDigit(v) /\ ~(Len(v) > 1 /\ v[1] = "0") THEN IntVal(IntOf(v))
  ELSE IF float(v) = ValueError THEN StrVal(v)
  ELSE float(v)

\* coerce_value of the WKT loader
coerce_value_wkt(v0) ==
  LET v == Strip(v0) IN
  IF v = <<>> \/ Upper(v) \in NullTokens THEN Null
  ELSE IF IsDigit(v) /\ ~(Len(v) > 1 /\ v[1] = "0") THEN IntVal(IntOf(v))
  ELSE IF float(RemoveCommas(v)) = ValueError THEN StrVal(v)
  ELSE float(RemoveCommas(v))

\* A row of the WKT loader: the WKT column (default name of --wkt-field)
\* and one more column holding the cell under test.
WktField == "the_geom"

WktText == <<"P", "O", "I", "N", "T">>

Geometry == [kind |-> "geometry", val |-> <<>>]

Row(v) == <<<<WktField, WktText>>, <<"col", v>>>>

Put(d, k, x) == [kk \in DOMAIN d \cup {k} |-> IF kk = k THEN x ELSE d[kk]]

\* `for k, v in row.items(): if k == wkt_field: continue; doc[k] = ...`
RECURSIVE CopyColumns(_, _, _)
CopyColumns(doc, items, wkt_field) ==
  IF items = <<>> THEN doc
  ELSE LET k == Head(items)[1]
           v == Head(items)[2]
       IN  IF k = wkt_field
             THEN CopyColumns(doc, Tail(items), wkt_field)
             ELSE CopyColumns(Put(doc, k, coerce_value_wkt(v)), Tail(items),
                              wkt_field)

\* the document yield_docs_from_csv builds for a row with geometry
WktDoc(row, wkt_field, geometry_field) ==
  CopyColumns([k \in {geometry_field} |-> Geometry], row, wkt_field)

RunIdle ==
  /\ tool = "none"
  /\ args = <<>>
  /\ input = <<>>
  /\ coll = <<>>
  /\ pc = "idle"
  /\ handle = "unopened"
  /\ opens = 0
  /\ gen = "fresh"
  /\ pos = 0
  /\ iterating = FALSE
  /\ ei = 0
  /\ item = <<>>
  /\ buf = <<>>
  /\ docs = <<>>
  /\ total = 0
  /\ log = <<>>
  /\ ops = <<>>
  /\ err = "none"
  /\ emitted = <<>>

InitCoerce ==
  /\ cv \in [v : Strings, geometry_field : {"geometry", WktField}]
  /\ cres = [csv_done |-> FALSE, csv |-> Null, wkt_done |-> FALSE, doc |-> <<>>]
  /\ RunIdle
  /\ FeatIdle

\* the CSV loader coerces the cell (read_csv_rows)
CoerceCsvCell ==
  /\ ~cres.csv_done
  /\ cres' = [cres EXCEPT !.csv_done = TRUE, !.csv = coerce_value_csv(cv.v)]
  /\ UNCHANGED <<cv, runVars, featVars>>

\* the WKT loader builds the document of the row (yield_docs_from_csv)
BuildWktDoc ==
  /\ ~cres.wkt_done
  /\ cres' = [cres EXCEPT !.wkt_done = TRUE,
                          !.doc = WktDoc(Row(cv.v), WktField, cv.geometry_field)]
  /\ UNCHANGED <<cv, runVars, featVars>>

NextCoerce == CoerceCsvCell \/ BuildWktDoc

SpecCoerce == InitCoerce /\ [][NextCoerce]_vars

CoercedBoth == cres.csv_done /\ cres.wkt_done

WktColumnNotCopied ==
  WktField \in DOMAIN cres.doc =>
    (cv.geometry_field = WktField /\ cres.doc[WktField] = Geometry)

SameValue(a, b) == a.kind = b.kind /\ a.val = b.val

\* C7 as stated: for every string cell of a non-WKT column the WKT loader's
\* coerce_value gives the result of the CSV loader's coerce_value, and the
\* WKT column itself is not copied into the document.
C7_SameCoercion ==
  CoercedBoth =>
    /\ SameValue(cres.doc["col"], cres.csv)
    /\ WktColumnNotCopied

\* C7 amended: the two coerce_value functions agree on every string cell
\* except those that, stripped and upper-cased, read NULL, N/A, NA or NONE:
\* for these the WKT loader gives null and the CSV loader the stripped
\* string.  The WKT column itself is not copied into the document.
C7_SameCoercionButNullTokens ==
  CoercedBoth =>
    /\ IF Upper(Strip(cv.v)) \in NullTokens
         THEN /\ cres.doc["col"] = Null
              /\ cres.csv = StrVal(Strip(cv.v))
         ELSE SameValue(cres.doc["col"], cres.csv)
    /\ WktColumnNotCopied

C7_Witness ==
  /\ CoercedBoth
  /\ cv.v = <<" ", "7", ",", "0">>
  /\ cres.csv = FloatVal(70, 0)
  /\ cres.doc["col"] = FloatVal(70, 0)

\* =================================================== feature normalisation
\* keys a Feature's properties may have
PropKeys == {"name", "geometry", "properties", "_feature_id"}

\* the `properties` member of a Feature: absent, null, another falsy value,
\* a non-empty value that is not a mapping, or a mapping
PropsValues ==
  {[kind |-> k, keys |-> {}] : k \in {"absent", "null", "falsy", "nondict"}}
  \cup {[kind |-> "dict", keys |-> ks] : ks \in SUBSET PropKeys}

Features ==
  [type : {"Feature", "Point"}, props : PropsValues, has_id : BOOLEAN]

GeometryFields == {"geometry", "geom", "properties"}

\* argparse defaults of the GeoJSON loader: --geometry-field "geometry",
\* --flatten-properties and --keep-feature-id are store_true flags
DefaultArgs ==
  [geometry_field |-> "geometry", flatten_properties |-> FALSE,
   keep_feature_id |-> FALSE]

\* values a document can hold
PropVal(k) == [kind |-> "prop", val |-> <<k>>]
IdVal == [kind |-> "id", val |-> <<>>]
Nested(keys) == [kind |-> "mapping", val |-> [k \in keys |-> PropVal(k)]]
NonDict == [kind |-> "nondict", val |-> <<>>]

\* `props = feat.get("properties", {}) or {}`
PropsIsDict(f) == f.props.kind # "nondict"

PropsMap(f) == [k \in f.props.keys |-> PropVal(k)]

PropsNested(f) == IF PropsIsDict(f) THEN Nested(f.props.keys) ELSE NonDict

\* dict.update
Update(d, m) ==
  [k \in DOMAIN d \cup DOMAIN m |-> IF k \in DOMAIN m THEN m[k] ELSE d[k]]

Raised == [raised |-> TRUE, doc |-> <<>>]
Returned(d) == [raised |-> FALSE, doc |-> d]

\* faulty variant: flattening also keeps the nested copy
normalize_feature_KeepsNested(f, geometry_field, flatten_properties, keep_id) ==
  IF f.type # "Feature" THEN Raised
  ELSE LET d0 == [k \in {geometry_field} |-> Geometry]
           d1 == IF flatten_properties /\ PropsIsDict(f)
                   THEN Put(Update(d0, PropsMap(f)), "properties", PropsNested(f))
                   ELSE Put(d0, "properties", PropsNested(f))
           d2 == IF keep_id /\ f.has_id THEN Put(d1, "_feature_id", IdVal) ELSE d1
       IN  Returned(d2)

\* faulty variant: the geometry is written after the properties
normalize_feature_GeometryLast(f, geometry_field, flatten_properties, keep_id) ==
  IF f.type # "Feature" THEN Raised
  ELSE LET d1 == IF flatten_properties /\ PropsIsDict(f)
                   THEN PropsMap(f)
                   ELSE [k \in {"properties"} |-> PropsNested(f)]
           d0 == Put(d1, geometry_field, Geometry)
           d2 == IF keep_id /\ f.has_id THEN Put(d0, "_feature_id", IdVal) ELSE d0
       IN  Returned(d2)

normalize_feature(f, geometry_field, flatten_properties, keep_id) ==
  IF f.type # "Feature" THEN Raised
  ELSE LET d0 == [k \in {geometry_field} |-> Geometry]
           d1 == IF flatten_properties /\ PropsIsDict(f)
                   THEN Update(d0, PropsMap(f))
                   ELSE Put(d0, "properties", PropsNested(f))
           d2 == IF keep_id /\ f.has_id THEN Put(d1, "_feature_id", IdVal) ELSE d1
       IN  Returned(d2)

InitFeature ==
  /\ feat \in Features
  /\ nargs \in [geometry_field : GeometryFields, flatten_properties : BOOLEAN,
                keep_feature_id : BOOLEAN]
  /\ ndoc = [called |-> FALSE, raised |-> FALSE, doc |-> <<>>]
  /\ RunIdle
  /\ CoerceIdle

\* the call of normalize_feature made for main by
\* yield_docs_from_geojson_stream: keep_id is args.keep_feature_id
NormalizeCall ==
  /\ ~ndoc.called
  /\ LET r == normalize_feature(feat, nargs.geometry_field,
                                nargs.flatten_properties, nargs.keep_feature_id)
     IN  ndoc' = [called |-> TRUE, raised |-> r.raised, doc |-> r.doc]
  /\ UNCHANGED <<feat, nargs, runVars, coerceVars>>

NextFeature == NormalizeCall

SpecFeature == InitFeature /\ [][NextFeature]_vars

Normalized == ndoc.called /\ ~ndoc.raised

\* C8: a Feature with an `id` member gives a document holding that
\* identifier under `_feature_id`, not under `_id`, unless the operator
\* suppresses it; a run with default flags keeps the identifier.
C8_FeatureIdKeptByDefault ==
  (Normalized /\ feat.has_id /\ nargs = DefaultArgs)
  => /\ "_feature_id" \in DOMAIN ndoc.doc
     /\ ndoc.doc["_feature_id"] = IdVal
     /\ "_id" \notin DOMAIN ndoc.doc

\* C10 as stated: with flattening the document has every top-level key of
\* the properties at its root and no `properties` key; without, its
\* `properties` key holds the properties and its root carries no property
\* key.
C10_FlattenOrNest ==
  Normalized =>
    IF nargs.flatten_properties
      THEN /\ \A k \in feat.props.keys : k \in DOMAIN ndoc.doc
           /\ "properties" \notin DOMAIN ndoc.doc
      ELSE /\ "properties" \in DOMAIN ndoc.doc
           /\ ndoc.doc["properties"] = PropsNested(feat)
           /\ \A k \in feat.props.keys : k \notin DOMAIN ndoc.doc

\* C10 amended: with flattening enabled and `properties` a mapping (or
\* missing, null or otherwise empty) the document has every top-level key
\* of the properties at its root, and it has a `properties` key exactly
\* when the properties have a key of that name or the geometry field is
\* named `properties`; with flattening disabled, or `properties` not a
\* mapping, the `properties` key holds the Feature's properties nested and
\* the root has no key but the geometry field, `properties` and, when the
\* id is kept, `_feature_id`.
C10_FlattenOrNestExact ==
  Normalized =>
    IF nargs.flatten_properties /\ PropsIsDict(feat)
      THEN /\ \A k \in feat.props.keys : k \in DOMAIN ndoc.doc
           /\ "properties" \in DOMAIN ndoc.doc
                <=> ("properties" \in feat.props.keys
                     \/ nargs.geometry_field = "properties")
      ELSE /\ "properties" \in DOMAIN ndoc.doc
           /\ ndoc.doc["properties"] = PropsNested(feat)
           /\ DOMAIN ndoc.doc =
                {nargs.geometry_field, "properties"}
                \cup (IF nargs.keep_feature_id /\ feat.has_id
                        THEN {"_feature_id"} ELSE {})

C10_Witness ==
  /\ Normalized
  /\ nargs.flatten_properties
  /\ feat.props = [kind |-> "dict", keys |-> {"name"}]
  /\ nargs.geometry_field = "geometry"
  /\ DOMAIN ndoc.doc = {"geometry", "name"}
  /\ ndoc.doc["name"] = PropVal("name")

\* flattening takes place: the flag is set and the properties are a mapping
Flattened == Normalized /\ nargs.flatten_properties /\ PropsIsDict(feat)

\* C11 as stated: with flattening, a property whose key is also written
\* from elsewhere (the geometry field, or `_feature_id` when the id is
\* kept) ends up in the document with the property's value.
C11_FlattenedKeysWin ==
  Flattened => \A k \in feat.props.keys : ndoc.doc[k] = PropVal(k)

\* C11 amended: with flattening, a property named like the geometry field
\* replaces the geometry in the document, but a property named
\* `_feature_id` is replaced by the Feature id when the id is kept (the id
\* is written after the properties); every other property key holds the
\* property's value.
C11_LastWriteWins ==
  Flattened =>
    \A k \in feat.props.keys :
      ndoc.doc[k] = IF k = "_feature_id" /\ nargs.keep_feature_id /\ feat.has_id
                      THEN IdVal
                      ELSE PropVal(k)

C11_Witness ==
  /\ Flattened
  /\ nargs.geometry_field = "geometry"
  /\ nargs.keep_feature_id
  /\ feat.has_id
  /\ feat.props.keys = {"geometry", "_feature_id"}
  /\ ndoc.doc["geometry"] = PropVal("geometry")
  /\ ndoc.doc["_feature_id"] = IdVal

\* the reader or the transformer has raised
ReaderFailed == err \notin {"none", "BulkWriteError"}

\* the documents of this run that are in the collection
FromThisRun == SelectSeq(coll, LAMBDA d : d # Prior)

\* C12: when the reader or transformer raises after k documents were
\* emitted, exactly floor(k/B) bulk inserts have been issued, carrying the
\* first floor(k/B)*B documents in input order; the k mod B documents in
\* the batcher's buffer are never submitted, and the collection holds from
\* this run that prefix of whole batches and nothing else.
C12_FailedRunLeavesWholeBatches ==
  [][/\ ReaderFailed => (ops' = ops /\ coll' = coll /\ err' = err)
     /\ ReaderFailed' =>
          LET k == Len(emitted')
              w == WrittenBatches(ops')
          IN  /\ pc' \in {"raise", "failed", "exit"}
              /\ Len(w) = k \div B'
              /\ \A i \in 1..Len(w) : Len(w[i]) = B'
              /\ Flatten(w) = SubSeq(emitted', 1, (k \div B') * B')
              /\ buf' = SubSeq(emitted', (k \div B') * B' + 1, k)
              /\ Len(buf') = k % B'
              /\ FromThisRun' = Flatten(w)
              /\ total' = (k \div B') * B']_vars

C12_Witness ==
  /\ ReaderFailed
  /\ tool = "wkt"
  /\ err = "InvalidWKT"
  /\ pc = "failed"
  /\ B = 2
  /\ input.rows = <<"ok", "ok", "ok", "bad">>
  /\ Len(emitted) = 3
  /\ Len(WrittenBatches(ops)) = 1
  /\ Len(FromThisRun) = 2
  /\ Len(buf) = 1

\* the same case in the CSV loader, which has no exception handler
C12_WitnessCsv ==
  /\ ReaderFailed
  /\ tool = "csv"
  /\ err = "KeyError"
  /\ pc = "failed"
  /\ B = 2
  /\ Len(emitted) = 3
  /\ Len(WrittenBatches(ops)) = 1
  /\ Len(buf) = 1

====
